---- MODULE Spec2Model ----
(***************************************************************************)
(* A model of FfFrameReader::Stream (source/FFFRStream.cpp): the ping/pong *)
(* decode buffers, the peek/pop cursor, the frame sequence reader and the  *)
(* two seek entry points, on top of a demuxer and a decoder modelled by    *)
(* what the Stream observes of them (packets read in file order, a decoder *)
(* that holds back a fixed number of frames, keyframe-granular seeks).     *)
(***************************************************************************)
EXTENDS Integers, Sequences, FiniteSets, TLC

VARIABLES
    cfg,      \* what is fixed when the Stream is constructed: file, decoder, m_bufferLength
    stream,   \* the Stream object together with its demuxer and decoder contexts
    last,     \* the last public call: operation, argument, state before it, result
    reads,    \* bookkeeping of the calls made since construction / since the last seek
    pc,       \* per thread: where the thread is inside a public call
    lock,     \* owner of m_mutex (0: free)
    held      \* per thread: the frame its peekNextFrame returned inside getNextFrame

vars == <<cfg, stream, last, reads, pc, lock, held>>

----------------------------------------------------------------------------
(* Bounds of the model *)

MaxBufferLength == 3
MaxDelay == 1
MaxFrames == 6
MaxSeqIndex == 3
KeyInterval == 3
ScenarioFrames == 13

(* Program constants *)

AV_TIME_BASE == 1000000
forwardRange == 25

\* index of the video substream inside the container (m_index)
m_index == 0

----------------------------------------------------------------------------
(* libavutil rescaling as the Stream uses it *)

Abs(x) == IF x < 0 THEN -x ELSE x

RECURSIVE GCD(_, _)
GCD(a, b) == IF b = 0 THEN a ELSE GCD(b, a % b)

\* a rescale that rounds towards zero instead of to nearest
av_rescale_zero(a, b, c) ==
    LET mag == (Abs(a) * (b \div GCD(b, c))) \div (c \div GCD(b, c))
    IN  IF a < 0 THEN -mag ELSE mag

\* av_rescale_rnd(a, b, c, AV_ROUND_NEAR_INF): a*b/c rounded to nearest, halves
\* away from zero.  b/c is reduced first; the quotient is the same.
av_rescale(a, b, c) ==
    LET g == GCD(b, c)
        bb == b \div g
        cc == c \div g
        mag == (Abs(a) * bb + (cc \div 2)) \div cc
    IN  IF a < 0 THEN -mag ELSE mag

\* av_rescale_q(a, bq, cq) = a * bq / cq
av_rescale_q(a, bq, cq) == av_rescale(a, bq.num * cq.den, cq.num * bq.den)

av_make_q(n, d) == [num |-> n, den |-> d]
av_inv_q(q) == [num |-> q.den, den |-> q.num]

time_base == av_make_q(1, cfg.tbDen)
r_frame_rate == av_make_q(cfg.fps, 1)

timeToTimeStamp(time) ==
    cfg.m_startTimeStamp + av_rescale_q(time, av_make_q(1, AV_TIME_BASE), time_base)

timeStampToTime(timeStamp) ==
    av_rescale_q(timeStamp - cfg.m_startTimeStamp, time_base, av_make_q(1, AV_TIME_BASE))

frameToTimeStamp(frame) ==
    cfg.m_startTimeStamp + av_rescale_q(frame, av_inv_q(r_frame_rate), time_base)

timeStampToFrame(timeStamp) ==
    av_rescale_q(timeStamp - cfg.m_startTimeStamp, r_frame_rate, av_inv_q(time_base))

frameToTime(frame) == av_rescale_q(frame, av_make_q(AV_TIME_BASE, 1), r_frame_rate)

timeToFrame(time) ==
    av_rescale_q(time, av_make_q(1, AV_TIME_BASE), av_inv_q(r_frame_rate))

getFrameTime == frameToTime(1)

----------------------------------------------------------------------------
(* The container as av_read_frame delivers it: video packet k carries the  *)
(* pts of frame k; an audio packet follows every second video packet.      *)

NumPackets == cfg.nFrames + (cfg.nFrames \div 2)

FramePts(k) == cfg.firstPts + av_rescale_q(k, av_inv_q(r_frame_rate), time_base)

PacketAt(p) ==
    LET k == 2 * (p \div 3) + (IF p % 3 = 2 THEN 1 ELSE p % 3)
    IN  [stream_index |-> IF p % 3 = 2 THEN 1 ELSE m_index,
         frame |-> k,
         pts |-> FramePts(k),
         key |-> (p % 3 # 2) /\ (k % cfg.keyInt = 0)]

VideoPos(k) == k + (k \div 2)

----------------------------------------------------------------------------
(* Frames *)

\* Frame::Frame(frame, timeStamp, frameNum)
Frame(timeStamp, frameNum) == [timeStamp |-> timeStamp, frameNum |-> frameNum]

\* make_shared<Frame>(): the frame that replaces a popped slot
EmptyFrame == Frame(0, 0)

NoFault == [kind |-> "none", pos |-> 0]

----------------------------------------------------------------------------
(* Stream::decodeNextBlock *)

\* the inner loop: avcodec_receive_frame until EAGAIN, each frame to pong
RECURSIVE receiveFrames(_)
receiveFrames(st) ==
    IF Len(st.decoder) > cfg.delay
    THEN LET ts == Head(st.decoder)
         IN  receiveFrames([st EXCEPT
                 !.decoder = Tail(@),
                 !.m_bufferPong = Append(@, Frame(timeStampToTime(ts), timeStampToFrame(ts)))])
    ELSE st

\* whether the block is complete when the decoder asks for more input
blockFull(st) == Len(st.m_bufferPong) >= cfg.m_bufferLength

\* the outer loop: av_read_frame, avcodec_send_packet, drain
RECURSIVE readPackets(_)
readPackets(st) ==
    IF st.fault = [kind |-> "read", pos |-> st.readPos]
    THEN [ok |-> FALSE, st |-> [st EXCEPT !.fault = NoFault]]
    ELSE IF st.readPos >= NumPackets
    THEN [ok |-> TRUE, st |-> st]
    ELSE LET packet == PacketAt(st.readPos)
             st1 == [st EXCEPT !.readPos = @ + 1]
         IN  IF packet.stream_index # m_index
             THEN readPackets(st1)
             ELSE IF st.fault = [kind |-> "send", pos |-> st.readPos]
             THEN [ok |-> FALSE, st |-> [st1 EXCEPT !.fault = NoFault]]
             ELSE LET st2 == receiveFrames([st1 EXCEPT !.decoder = Append(@, packet.pts)])
                  IN  IF blockFull(st2)
                      THEN [ok |-> TRUE, st |-> st2]
                      ELSE readPackets(st2)

decodeNextBlock(st) == readPackets([st EXCEPT !.m_bufferPong = <<>>])

----------------------------------------------------------------------------
(* Stream::peekNextFrame, popFrame, getNextFrame *)

\* a refill one frame early: the last frame of ping is never served
bufferExhausted_early(st) == st.m_bufferPingHead + 1 >= Len(st.m_bufferPing)

\* "Check if we actually have any frames in the current buffer"
bufferExhausted(st) == st.m_bufferPingHead = Len(st.m_bufferPing)

\* what peekNextFrame does with the result d of decodeNextBlock: give up, or
\* swap ping and pong, reset the head and pong, and serve the first frame
swapBuffers(d) ==
    LET sw == [d.st EXCEPT !.m_bufferPing = d.st.m_bufferPong,
                           !.m_bufferPingHead = 0,
                           !.m_bufferPong = <<>>]
    IN  IF ~d.ok
        THEN [ok |-> FALSE, frame |-> EmptyFrame, st |-> d.st]
        ELSE IF Len(sw.m_bufferPing) = 0
        THEN [ok |-> FALSE, frame |-> EmptyFrame, st |-> sw]
        ELSE [ok |-> TRUE, frame |-> sw.m_bufferPing[1], st |-> sw]

peekNextFrame(st) ==
    IF bufferExhausted(st)
    THEN swapBuffers(decodeNextBlock(st))
    ELSE [ok |-> TRUE, frame |-> st.m_bufferPing[st.m_bufferPingHead + 1], st |-> st]

\* a pop that releases the slot and forgets to advance the head
popFrame_stays(st) ==
    IF st.m_bufferPingHead >= Len(st.m_bufferPing)
    THEN st
    ELSE [st EXCEPT !.m_bufferPing[st.m_bufferPingHead + 1] = EmptyFrame]

popFrame(st) ==
    IF st.m_bufferPingHead >= Len(st.m_bufferPing)
    THEN st
    ELSE [st EXCEPT !.m_bufferPing[st.m_bufferPingHead + 1] = EmptyFrame,
                    !.m_bufferPingHead = @ + 1]

\* what getNextFrame does with the result ret of its peekNextFrame
popPeeked(ret) ==
    IF ~ret.ok
    THEN [ok |-> FALSE, frame |-> EmptyFrame, st |-> ret.st]
    ELSE [ok |-> TRUE, frame |-> ret.frame, st |-> popFrame(ret.st)]

getNextFrame(st) == popPeeked(peekNextFrame(st))

----------------------------------------------------------------------------
(* Stream::getNextFrameSequence *)

\* the removal loop run with j <= i: one frame too many is dropped
removeMore_inclusive(j, i) == j <= i

\* the condition of the removal loop: for (j = start; j < i; j++)
removeMore(j, i) == j < i

\* for (j = start; j < i; j++) { peekNextFrame(); popFrame(); }
RECURSIVE removeFrames(_, _, _)

\* one turn of the loop, given the result err of its peekNextFrame
removeFrame(err, j, i) ==
    IF ~err.ok
    THEN [ok |-> FALSE, st |-> err.st]
    ELSE removeFrames(popFrame(err.st), j + 1, i)

removeFrames(st, j, i) ==
    IF ~removeMore(j, i)
    THEN [ok |-> TRUE, st |-> st]
    ELSE removeFrame(peekNextFrame(st), j, i)

\* start = i: the frame just returned is counted again
nextStart_same(i) == i

\* the value start takes after index i has been served
nextStart(i) == i + 1

\* an index one below start still passes: a repeated index is accepted
invalidIndex_lax(i, start) == i + 1 < start

\* "Invalid sequence list": if (i < start)
invalidIndex(i, start) == i < start

RECURSIVE sequenceLoop(_, _, _, _)

\* the end of one turn, given the result frame of its getNextFrame
pushFrame(frame, frameSequence, ret) ==
    IF ~frame.ok
    THEN [ok |-> FALSE, frames |-> <<>>, st |-> frame.st]
    ELSE sequenceLoop(frame.st, Tail(frameSequence), nextStart(Head(frameSequence)),
                      Append(ret, frame.frame))

\* the middle of one turn, given the result rm of the removal loop
takeFrame(rm, frameSequence, ret) ==
    IF ~rm.ok
    THEN [ok |-> FALSE, frames |-> <<>>, st |-> rm.st]
    ELSE pushFrame(getNextFrame(rm.st), frameSequence, ret)

sequenceLoop(st, frameSequence, start, ret) ==
    IF frameSequence = <<>>
    THEN [ok |-> TRUE, frames |-> ret, st |-> st]
    ELSE IF invalidIndex(Head(frameSequence), start)
    THEN [ok |-> FALSE, frames |-> <<>>, st |-> st]
    ELSE takeFrame(removeFrames(st, start, Head(frameSequence)), frameSequence, ret)

getNextFrameSequence(st, frameSequence) == sequenceLoop(st, frameSequence, 0, <<>>)

----------------------------------------------------------------------------
(* The demuxer and decoder calls the seeks make *)

\* avcodec_flush_buffers: frames held inside the decoder are discarded
avcodec_flush_buffers(st) == [st EXCEPT !.decoder = <<>>, !.flushes = @ + 1]

Max(S) == CHOOSE x \in S : \A y \in S : y <= x

\* the keyframes a seek may land on: by timestamp, or by frame index
keyFramesUpTo(ts, byFrame) ==
    {k \in 0..(cfg.nFrames - 1) :
        /\ k % cfg.keyInt = 0
        /\ IF byFrame THEN k <= ts ELSE FramePts(k) <= ts}

\* avformat_seek_file(ctx, m_index, INT64_MIN, ts, ts, flags): the read position
\* moves to the last keyframe at or before ts; no such keyframe, or a frame
\* flag the demuxer does not implement, is an error (< 0)
avformat_seek_file(st, ts, byFrame) ==
    LET counted == IF byFrame THEN [st EXCEPT !.frameSeeks = @ + 1]
                              ELSE [st EXCEPT !.seeks = @ + 1]
        keys == keyFramesUpTo(ts, byFrame)
    IN  IF (byFrame /\ ~cfg.frameSeek) \/ keys = {}
        THEN [err |-> -1, st |-> counted]
        ELSE [err |-> 0, st |-> [counted EXCEPT !.readPos = VideoPos(Max(keys))]]

\* a clean-out that also re-arms the frame seek
cleanBuffer_rearms(st) ==
    [st EXCEPT !.m_bufferPing = <<>>, !.m_bufferPingHead = 0, !.m_frameSeekSupported = TRUE]

\* m_bufferPing.resize(0); m_bufferPingHead = 0;
cleanBuffer(st) == [st EXCEPT !.m_bufferPing = <<>>, !.m_bufferPingHead = 0]

back(st) == st.m_bufferPing[Len(st.m_bufferPing)]
front(st) == st.m_bufferPing[st.m_bufferPingHead + 1]

----------------------------------------------------------------------------
(* Stream::seekInternal *)

\* a walk that stops only on a frame at or after the target
timeFound_after(timeStamp, frame) == timeStamp <= frame.timeStamp

\* whether the peeked frame ends the walk of a time seek
timeFound(timeStamp, frame) ==
    \/ timeStamp <= frame.timeStamp
    \/ (timeStamp > frame.timeStamp) /\ (timeStamp < frame.timeStamp + getFrameTime)

\* "Dump all frames before requested one"
RECURSIVE dumpUntilTime(_, _)

\* one turn of the loop, given the result ret of its peekNextFrame
dumpTime(ret, timeStamp) ==
    IF ~ret.ok
    THEN [ok |-> FALSE, st |-> ret.st]
    ELSE IF timeFound(timeStamp, ret.frame)
    THEN [ok |-> TRUE, st |-> ret.st]
    ELSE dumpUntilTime(popFrame(ret.st), timeStamp)

dumpUntilTime(st, timeStamp) == dumpTime(peekNextFrame(st), timeStamp)

\* the in-buffer test without its upper limit: any target from the front on
timeInBuffer_open(st, timeStamp) ==
    /\ Len(st.m_bufferPing) > 0
    /\ st.m_bufferPingHead < Len(st.m_bufferPing)
    /\ timeStamp >= front(st).timeStamp

timeInBuffer(st, timeStamp) ==
    /\ Len(st.m_bufferPing) > 0
    /\ st.m_bufferPingHead < Len(st.m_bufferPing)
    /\ timeStamp >= front(st).timeStamp
    /\ timeStamp <= back(st).timeStamp

timeInForwardRange(st, timeStamp) ==
    /\ Len(st.m_bufferPing) > 0
    /\ timeStamp > back(st).timeStamp
    /\ timeStamp <= back(st).timeStamp + frameToTime(forwardRange)

\* a confirm call that gives up only after a second demuxer seek
confirmFailed_late(st, recursed) == recursed /\ st.seeks >= 2

\* "If we have recursed and still havnt found the frame then we never will"
confirmFailed(st, recursed) == recursed

RECURSIVE seekInternal(_, _, _)

\* a priming that lets the next call seek the demuxer once more
seekInBlock_fresh(prime, timeStamp) ==
    IF ~prime.ok
    THEN [ok |-> FALSE, st |-> prime.st]
    ELSE seekInternal(prime.st, timeStamp, prime.st.seeks >= 2)

\* "Decode the next block of frames" and "Search through buffer until time
\* stamp is found": given the result prime of the peekNextFrame that refills
seekInBlock(prime, timeStamp) ==
    IF ~prime.ok
    THEN [ok |-> FALSE, st |-> prime.st]
    ELSE seekInternal(prime.st, timeStamp, TRUE)

\* what follows avformat_seek_file, given its result sk
seekFromFile(sk, timeStamp) ==
    IF sk.err < 0
    THEN [ok |-> FALSE, st |-> sk.st]
    ELSE seekInBlock(peekNextFrame(cleanBuffer(sk.st)), timeStamp)

seekInternal(st, timeStamp, recursed) ==
    IF timeInBuffer(st, timeStamp)
    THEN dumpUntilTime(st, timeStamp)
    ELSE IF timeInForwardRange(st, timeStamp)
    THEN seekInBlock(peekNextFrame(cleanBuffer(st)), timeStamp)
    ELSE IF confirmFailed(st, recursed)
    THEN [ok |-> FALSE, st |-> st]
    ELSE LET localTimeStamp == timeToTimeStamp(timeStamp) + cfg.m_startTimeStamp
         IN  seekFromFile(avformat_seek_file(avcodec_flush_buffers(st), localTimeStamp, FALSE),
                          timeStamp)

\* Stream::seek
seek(st, timeStamp) == seekInternal(st, timeStamp, FALSE)

----------------------------------------------------------------------------
(* Stream::seekFrameInternal *)

\* a walk that goes one frame past a frame with the requested number
frameFound_past(frame, peeked) == frame < peeked.frameNum

\* "Check if we have found our requested frame"
frameFound(frame, peeked) == frame <= peeked.frameNum

\* the peek/pop walk both frame loops run
RECURSIVE dumpUntilFrame(_, _)

\* one turn of the walk, given the result ret of its peekNextFrame
dumpFrame(ret, frame) ==
    IF ~ret.ok
    THEN [ok |-> FALSE, st |-> ret.st]
    ELSE IF frameFound(frame, ret.frame)
    THEN [ok |-> TRUE, st |-> ret.st]
    ELSE dumpUntilFrame(popFrame(ret.st), frame)

dumpUntilFrame(st, frame) == dumpFrame(peekNextFrame(st), frame)

frameInBuffer(st, frame) ==
    /\ Len(st.m_bufferPing) > 0
    /\ st.m_bufferPingHead < Len(st.m_bufferPing)
    /\ frame >= front(st).frameNum
    /\ frame <= back(st).frameNum

frameInForwardRange(st, frame) ==
    /\ Len(st.m_bufferPing) > 0
    /\ frame > back(st).frameNum
    /\ frame <= back(st).frameNum + cfg.m_bufferLength * 2

\* the latch is ignored: only a recursed call gives up the frame seek
frameSeekGivenUp_recursedOnly(st, recursed) == recursed

\* "If we have recursed and still havnt found the frame then we never will":
\* if (recursed || !m_frameSeekSupported)
frameSeekGivenUp(st, recursed) == recursed \/ ~st.m_frameSeekSupported

RECURSIVE seekFrameInternal(_, _, _)

\* "Search through buffer until time stamp is found", given the result prime
\* of the peekNextFrame that refills after the frame seek
seekFrameInBlock(prime, frame) ==
    IF ~prime.ok
    THEN [ok |-> FALSE, st |-> prime.st]
    ELSE seekFrameInternal(prime.st, frame, TRUE)

\* m_frameSeekSupported = false; return seek(frameToTime(frame));
seekByTime(st, frame) == seek([st EXCEPT !.m_frameSeekSupported = FALSE], frameToTime(frame))

\* what follows avformat_seek_file with AVSEEK_FLAG_FRAME, given its result sk
seekFrameFromFile(sk, frame) ==
    IF sk.err < 0
    THEN seekByTime(sk.st, frame)
    ELSE seekFrameInBlock(peekNextFrame(cleanBuffer(sk.st)), frame)

seekFrameInternal(st, frame, recursed) ==
    IF frameInBuffer(st, frame) \/ frameInForwardRange(st, frame)
    THEN dumpUntilFrame(st, frame)
    ELSE IF frameSeekGivenUp(st, recursed)
    THEN IF st.m_frameSeekSupported
         THEN seekByTime(st, frame)
         ELSE IF recursed
         THEN [ok |-> FALSE, st |-> st]
         ELSE seek(st, frameToTime(frame))
    ELSE LET frameInternal == frame + timeStampToFrame(cfg.m_startTimeStamp)
         IN  seekFrameFromFile(avformat_seek_file(avcodec_flush_buffers(st), frameInternal, TRUE),
                               frame)

\* Stream::seekFrame
seekFrame(st, frame) == seekFrameInternal(st, frame, FALSE)

----------------------------------------------------------------------------
(* Construction *)

TimeBaseDens == {30, 1000}

Stream0 ==
    [m_bufferPing |-> <<>>, m_bufferPong |-> <<>>, m_bufferPingHead |-> 0,
     m_frameSeekSupported |-> TRUE,
     readPos |-> 0, decoder |-> <<>>, fault |-> NoFault,
     flushes |-> 0, seeks |-> 0, frameSeeks |-> 0]

Configs(bufferLengths, frames) ==
    {[m_bufferLength |-> b, delay |-> d, nFrames |-> n, keyInt |-> KeyInterval,
      tbDen |-> tb, fps |-> 30, firstPts |-> 0, m_startTimeStamp |-> 0,
      frameSeek |-> fs] :
        b \in bufferLengths, d \in 0..MaxDelay, n \in frames,
        tb \in TimeBaseDens, fs \in BOOLEAN}

Threads == {1, 2}

\* no call is in progress and the caller holds no result
NoCall ==
    [op |-> "none", arg |-> 0, seq |-> <<>>, pre |-> Stream0,
     ok |-> TRUE, frames |-> <<>>, fresh |-> 0, run |-> <<>>]

InitCalls ==
    /\ last = NoCall
    /\ reads = [fresh |-> 0, run |-> <<>>]
    /\ pc = [t \in Threads |-> "idle"]
    /\ lock = 0
    /\ held = [t \in Threads |-> [frame |-> EmptyFrame, arg |-> 0, seq |-> <<>>]]

Init ==
    /\ cfg \in Configs(1..MaxBufferLength, {MaxFrames})
    /\ stream = Stream0
    /\ InitCalls

\* a transient failure waiting in the file: av_read_frame fails once at a read
\* position (kind "read"), or avcodec_send_packet rejects one packet ("send")
Faults ==
    {[kind |-> kd, pos |-> ps] : kd \in {"read", "send"}, ps \in 0..(NumPackets - 1)}

InitFaulty ==
    /\ cfg \in {c \in Configs(1..MaxBufferLength, {MaxFrames}) : c.tbDen = 30 /\ c.frameSeek}
    /\ stream \in {[Stream0 EXCEPT !.fault = f] : f \in Faults}
    /\ InitCalls

\* the 4-frame-buffer scenario on a longer file
InitScenario ==
    /\ cfg \in Configs({4}, {ScenarioFrames})
    /\ stream = Stream0
    /\ InitCalls

----------------------------------------------------------------------------
(* The public calls, one thread at a time *)

resetCounters(st) == [st EXCEPT !.flushes = 0, !.seeks = 0, !.frameSeeks = 0]

Called(op, arg, seq, ok, frames) ==
    [op |-> op, arg |-> arg, seq |-> seq, pre |-> resetCounters(stream),
     ok |-> ok, frames |-> frames, fresh |-> reads.fresh, run |-> reads.run]

SeekTimes ==
    LET F == 0..cfg.nFrames
    IN  {frameToTime(k) : k \in F}
            \cup {frameToTime(k) + (getFrameTime \div 2) : k \in F}
            \cup {-1}

SeekFrames == (-1)..cfg.nFrames

SequenceArgs ==
    {<<a, b, c>> : a \in 0..1, b \in 1..MaxSeqIndex, c \in 2..(MaxSeqIndex + 1)}
        \cup {<<>>, <<1>>, <<0, 5, 11>>, <<-1, 1>>}

\* one caller, no call in progress
Sequential == last.op = "none" /\ \A t \in Threads : pc[t] = "idle"

PeekNext ==
    LET r == peekNextFrame(resetCounters(stream))
    IN  /\ Sequential
        /\ stream' = r.st
        /\ last' = Called("peek", 0, <<>>, r.ok, IF r.ok THEN <<r.frame>> ELSE <<>>)
        /\ reads' = [reads EXCEPT !.fresh = -1]
        /\ UNCHANGED <<cfg, pc, lock, held>>

GetNext ==
    LET r == getNextFrame(resetCounters(stream))
    IN  /\ Sequential
        /\ stream' = r.st
        /\ last' = Called("get", 0, <<>>, r.ok, IF r.ok THEN <<r.frame>> ELSE <<>>)
        /\ reads' = [fresh |-> IF reads.fresh >= 0 /\ reads.fresh <= cfg.nFrames
                               THEN reads.fresh + 1 ELSE -1,
                     run |-> IF r.ok THEN <<r.frame>> ELSE reads.run]
        /\ UNCHANGED <<cfg, pc, lock, held>>

GetSequence ==
    \E frameSequence \in SequenceArgs :
        LET r == getNextFrameSequence(resetCounters(stream), frameSequence)
        IN  /\ Sequential
            /\ stream' = r.st
            /\ last' = Called("sequence", 0, frameSequence, r.ok, r.frames)
            /\ reads' = [fresh |-> -1, run |-> <<>>]
            /\ UNCHANGED <<cfg, pc, lock, held>>

SeekTime ==
    \E timeStamp \in SeekTimes :
        LET r == seek(resetCounters(stream), timeStamp)
        IN  /\ Sequential
            /\ stream' = r.st
            /\ last' = Called("seek", timeStamp, <<>>, r.ok, <<>>)
            /\ reads' = [fresh |-> -1, run |-> <<>>]
            /\ UNCHANGED <<cfg, pc, lock, held>>

SeekFrame ==
    \E frame \in SeekFrames :
        LET r == seekFrame(resetCounters(stream), frame)
        IN  /\ Sequential
            /\ stream' = r.st
            /\ last' = Called("seekFrame", frame, <<>>, r.ok, <<>>)
            /\ reads' = [fresh |-> -1, run |-> <<>>]
            /\ UNCHANGED <<cfg, pc, lock, held>>

\* the call returns and the caller lets go of the result
Return ==
    /\ last.op # "none"
    /\ last' = NoCall
    /\ UNCHANGED <<cfg, stream, reads, pc, lock, held>>

Next == PeekNext \/ GetNext \/ GetSequence \/ SeekTime \/ SeekFrame \/ Return

Spec == Init /\ [][Next]_vars


SpecFaulty == InitFaulty /\ [][Next]_vars

SpecScenario == InitScenario /\ [][Next]_vars

----------------------------------------------------------------------------
(* Construction: Stream::Stream runs getStreamStartTime, getStreamFrames   *)
(* and getStreamDuration on the freshly opened file, in that order.        *)

\* AV_NOPTS_VALUE: the smallest timestamp, below every timestamp of a file
AV_NOPTS_VALUE == -(2 ^ 30)

\* the frame index of the "seek last key-frame" request (1UL << 29 in the
\* source), far beyond the last frame of every file
farFrame == 2 ^ 20

\* the decode timestamp of video packet k: ahead of its pts by the reorder depth
FrameDts(k) == FramePts(k - cfg.has_b_frames)

Min(S) == CHOOSE x \in S : \A y \in S : x <= y

\* Stream::getCodecDelay
getCodecDelay == Max({(IF cfg.capDelay THEN cfg.delay ELSE 0) + cfg.has_b_frames, 1})

\* packet.pts and packet.dts as av_read_frame delivers them: a container
\* that stores no presentation (no decode) timestamps leaves AV_NOPTS_VALUE
packetPts(packet) == IF cfg.hasPts THEN packet.pts ELSE AV_NOPTS_VALUE

packetDts(packet) == IF cfg.hasDts THEN FrameDts(packet.frame) ELSE AV_NOPTS_VALUE

\* the timestamp the demuxer indexes video packet k by: its dts, or its pts in
\* a container without decode timestamps
indexTimeStamp(k) == IF cfg.hasDts THEN FrameDts(k) ELSE FramePts(k)

\* the keyframes av_seek_frame may land on, by the index timestamp
keyFramesFor(ts, backward) ==
    {k \in 0..(cfg.nFrames - 1) :
        /\ k % cfg.keyInt = 0
        /\ IF backward THEN indexTimeStamp(k) <= ts ELSE indexTimeStamp(k) >= ts}

\* av_seek_frame(ctx, m_index, ts, flags): with AVSEEK_FLAG_BACKWARD the read
\* position moves to the last keyframe at or before ts, without it to the
\* first keyframe at or after ts; no such keyframe is an error (< 0) and the
\* read position stays
av_seek_frame(st, ts, backward) ==
    LET keys == keyFramesFor(ts, backward)
    IN  IF keys = {}
        THEN [err |-> -1, st |-> st]
        ELSE [err |-> 0,
              st |-> [st EXCEPT !.readPos = VideoPos(IF backward THEN Max(keys) ELSE Min(keys))]]

\* "Get the Presentation time stamp for the packet, if this value is not set
\* then try the Decompression time stamp"
ptsElseDts(packet) ==
    IF packetPts(packet) = AV_NOPTS_VALUE THEN packetDts(packet) ELSE packetPts(packet)

\* the smaller of the start so far and the packet's value, if it has one
earlierStart(startTimeStamp, pts) ==
    IF pts # AV_NOPTS_VALUE /\ (pts < startTimeStamp \/ startTimeStamp = AV_NOPTS_VALUE)
    THEN pts
    ELSE startTimeStamp

\* the loop of getStreamStartTime over the first maxPackets video packets,
\* then the seek back and the result
RECURSIVE readStartPackets(_, _, _, _)
readStartPackets(st, i, startTimeStamp, startDts) ==
    IF i >= getCodecDelay
    THEN [value |-> IF startTimeStamp # AV_NOPTS_VALUE THEN startTimeStamp ELSE 0,
          st |-> av_seek_frame(st, startDts, TRUE).st]
    ELSE IF st.readPos >= NumPackets
    THEN [value |-> 0, st |-> st]
    ELSE IF PacketAt(st.readPos).stream_index = m_index
    THEN readStartPackets([st EXCEPT !.readPos = @ + 1], i + 1,
                          earlierStart(startTimeStamp, ptsElseDts(PacketAt(st.readPos))), startDts)
    ELSE readStartPackets([st EXCEPT !.readPos = @ + 1], i, startTimeStamp, startDts)

\* what getStreamStartTime does after its first seek sk
startFromPackets(sk, startDts) ==
    IF sk.err < 0
    THEN [value |-> 0, st |-> sk.st]
    ELSE readStartPackets(sk.st, 0, AV_NOPTS_VALUE, startDts)

\* min(0, first_dts) when the substream has a first_dts
startDtsOf(first_dts) ==
    IF first_dts # AV_NOPTS_VALUE THEN Min({0, first_dts}) ELSE 0

\* Stream::getStreamStartTime
getStreamStartTime(st) ==
    IF cfg.start_time # AV_NOPTS_VALUE
    THEN [value |-> cfg.start_time, st |-> st]
    ELSE startFromPackets(
             av_seek_frame(avcodec_flush_buffers(st), startDtsOf(cfg.first_dts), TRUE),
             startDtsOf(cfg.first_dts))

\* "auto found = packet.dts; if (found != AV_NOPTS_VALUE) found = packet.pts;"
foundOf(packet) ==
    IF packetDts(packet) # AV_NOPTS_VALUE THEN packetPts(packet) ELSE packetDts(packet)

\* the read loop of the fallback scan: to the end of the file, keeping the
\* largest value found on the video substream
RECURSIVE readToEnd(_, _)
readToEnd(st, foundTimeStamp) ==
    IF st.readPos >= NumPackets
    THEN [found |-> foundTimeStamp, st |-> st]
    ELSE IF PacketAt(st.readPos).stream_index = m_index
    THEN readToEnd([st EXCEPT !.readPos = @ + 1],
                   Max({foundTimeStamp, foundOf(PacketAt(st.readPos))}))
    ELSE readToEnd([st EXCEPT !.readPos = @ + 1], foundTimeStamp)

\* the end of the fallback scan: "Seek back to start of file" with
\* av_seek_frame(ctx, m_index, 0, 0), result not looked at
seekBackToStart(rd) == [found |-> rd.found, st |-> av_seek_frame(rd.st, 0, FALSE).st]

\* the fallback scan shared by getStreamFrames and getStreamDuration, after
\* its first seek sk; ok is FALSE when that seek failed
scanFromLastKey(sk) ==
    IF sk.err < 0
    THEN [ok |-> FALSE, found |-> 0, st |-> sk.st]
    ELSE [ok |-> TRUE] @@ seekBackToStart(readToEnd(sk.st, cfg.m_startTimeStamp))

scanFile(st) ==
    scanFromLastKey(av_seek_frame(avcodec_flush_buffers(st), frameToTimeStamp(farFrame), TRUE))

\* frames of the container duration, av_rescale_q(duration, r_frame_rate, 1/AV_TIME_BASE inverted)
durationFrames == av_rescale_q(cfg.duration, r_frame_rate, av_inv_q(av_make_q(1, AV_TIME_BASE)))

framesOfScan(sc) ==
    [value |-> IF sc.ok THEN 1 + timeStampToFrame(sc.found) ELSE 0, st |-> sc.st]

\* the test of line 556 the other way round: the duration count when it is
\* within one frame of nb_frames
getStreamFrames_within(st) ==
    IF cfg.duration > 0 /\ Abs(durationFrames - cfg.nb_frames) <= 1
    THEN [value |-> durationFrames - timeStampToFrame(cfg.m_startTimeStamp * 2), st |-> st]
    ELSE IF cfg.nb_frames > 0
    THEN [value |-> cfg.nb_frames - timeStampToFrame(cfg.m_startTimeStamp * 2), st |-> st]
    ELSE IF cfg.streamDuration > 0
    THEN [value |-> timeStampToFrame(cfg.streamDuration), st |-> st]
    ELSE framesOfScan(scanFile(st))

\* Stream::getStreamFrames
getStreamFrames(st) ==
    IF cfg.duration > 0 /\ Abs(durationFrames - cfg.nb_frames) > 1
    THEN [value |-> durationFrames - timeStampToFrame(cfg.m_startTimeStamp * 2), st |-> st]
    ELSE IF cfg.nb_frames > 0
    THEN [value |-> cfg.nb_frames - timeStampToFrame(cfg.m_startTimeStamp * 2), st |-> st]
    ELSE IF cfg.streamDuration > 0
    THEN [value |-> timeStampToFrame(cfg.streamDuration), st |-> st]
    ELSE framesOfScan(scanFile(st))

durationOfScan(sc) ==
    [value |-> IF sc.ok THEN timeStampToTime(sc.found) + frameToTime(1) ELSE 0, st |-> sc.st]

\* Stream::getStreamDuration
getStreamDuration(st) ==
    IF cfg.duration > 0
    THEN [value |-> cfg.duration - timeStampToTime(cfg.m_startTimeStamp * 2), st |-> st]
    ELSE IF cfg.streamDuration > 0
    THEN [value |-> timeStampToTime(cfg.streamDuration), st |-> st]
    ELSE durationOfScan(scanFile(st))

\* the largest first timestamp of a file, in ticks of the time base
MaxFirstPts == 2

\* the largest reorder depth a file declares
MaxBFrames == 2

\* the most frames by which a substream's declared nb_frames exceeds the
\* frames of the file
MaxCountError == 2

\* what the container and the decoder declare about the file: nb_frames is
\* absent (0), exact, or too large by up to MaxCountError; its packets carry
\* both timestamps, or only one of the two. AV_CODEC_CAP_DELAY counts only
\* with a decoder delay above 0 and first_dts only without a start_time
\* (lines 493 and 502-510), so the files that differ in nothing else are left out
Declared(c) ==
    {[firstPts |-> fp, has_b_frames |-> hb, capDelay |-> cd /\ c.delay > 0,
           start_time |-> IF sk THEN fp ELSE AV_NOPTS_VALUE,
           first_dts |-> IF (dk \/ sk) /\ "dts" \in stamps
                         THEN fp + av_rescale(-hb, c.tbDen, c.fps) ELSE AV_NOPTS_VALUE,
           hasPts |-> "pts" \in stamps, hasDts |-> "dts" \in stamps,
           duration |-> IF "format" \in md THEN av_rescale(c.nFrames, AV_TIME_BASE, c.fps) ELSE 0,
           nb_frames |-> nb,
           streamDuration |-> IF "stream" \in md THEN av_rescale(c.nFrames, c.tbDen, c.fps) ELSE 0,
           m_totalFrames |-> 0, m_totalDuration |-> 0] @@ c :
        fp \in {0, MaxFirstPts}, hb \in 0..MaxBFrames, cd \in BOOLEAN,
        sk \in BOOLEAN, dk \in BOOLEAN, md \in SUBSET {"format", "stream"},
        nb \in {0} \cup {c.nFrames + e : e \in 0..MaxCountError},
        stamps \in {{"pts", "dts"}, {"pts"}, {"dts"}}}

\* the files a Stream is constructed on
ProbeConfigs ==
    UNION {Declared(c) : c \in {k \in Configs({MaxBufferLength}, {1, MaxFrames}) : k.frameSeek}}

InitProbe ==
    /\ cfg \in ProbeConfigs
    /\ stream = Stream0
    /\ last = NoCall
    /\ reads = [fresh |-> 0, run |-> <<>>]
    /\ pc = [t \in Threads |-> IF t = 1 THEN "getStreamStartTime" ELSE "idle"]
    /\ lock = 0
    /\ held = [t \in Threads |-> [frame |-> EmptyFrame, arg |-> 0, seq |-> <<>>]]

\* m_startTimeStamp = getStreamStartTime();
StartTimeProbe ==
    /\ pc[1] = "getStreamStartTime"
    /\ cfg' = [cfg EXCEPT !.m_startTimeStamp = getStreamStartTime(stream).value]
    /\ stream' = getStreamStartTime(stream).st
    /\ pc' = [pc EXCEPT ![1] = "getStreamFrames"]
    /\ UNCHANGED <<last, reads, lock, held>>

\* m_totalFrames = getStreamFrames();
FramesProbe ==
    /\ pc[1] = "getStreamFrames"
    /\ cfg' = [cfg EXCEPT !.m_totalFrames = getStreamFrames(stream).value]
    /\ stream' = getStreamFrames(stream).st
    /\ pc' = [pc EXCEPT ![1] = "getStreamDuration"]
    /\ UNCHANGED <<last, reads, lock, held>>

\* m_totalDuration = getStreamDuration();
DurationProbe ==
    /\ pc[1] = "getStreamDuration"
    /\ cfg' = [cfg EXCEPT !.m_totalDuration = getStreamDuration(stream).value]
    /\ stream' = getStreamDuration(stream).st
    /\ pc' = [pc EXCEPT ![1] = "idle"]
    /\ UNCHANGED <<last, reads, lock, held>>

NextProbe == StartTimeProbe \/ FramesProbe \/ DurationProbe \/ GetNext \/ Return

SpecProbe == InitProbe /\ [][NextProbe]_vars

----------------------------------------------------------------------------
(* BenchStream::sequentialSeek: seek to a position, read one frame, move   *)
(* the position forward by a jump of whole frames, and again.              *)

\* no seek made yet in this pass of the benchmark
NoPosition == -1

InitBench ==
    /\ cfg \in Configs(1..MaxBufferLength, {MaxFrames})
    /\ stream = Stream0
    /\ last = NoCall
    /\ reads = [fresh |-> 0, run |-> <<>>]
    /\ pc = [t \in Threads |-> IF t = 1 THEN "seek" ELSE "idle"]
    /\ lock = 0
    /\ held = [t \in Threads |-> [frame |-> EmptyFrame, arg |-> NoPosition, seq |-> <<>>]]

\* the frame-aligned positions after the previous one, inside the stream
PositionsAfter(position) ==
    {frameToTime(k) : k \in {j \in 0..(cfg.nFrames - 1) : frameToTime(j) > position}}

\* the outcome r of m_stream->seek(position), the previous position kept in seq
benchSought(r, position) ==
    /\ stream' = r.st
    /\ last' = Called("seek", position, <<>>, r.ok, <<>>)
    /\ pc' = [pc EXCEPT ![1] = IF r.ok THEN "getNextFrame" ELSE "failed"]
    /\ held' = [held EXCEPT ![1] = [frame |-> EmptyFrame, arg |-> position, seq |-> <<held[1].arg>>]]
    /\ UNCHANGED <<cfg, reads, lock>>

\* if (!m_stream->seek(position))
BenchSeek ==
    /\ pc[1] = "seek"
    /\ \E position \in PositionsAfter(held[1].arg) :
           benchSought(seek(resetCounters(stream), position), position)

\* the outcome r of m_stream->getNextFrame()
benchRead(r) ==
    /\ stream' = r.st
    /\ last' = Called("get", 0, <<>>, r.ok, IF r.ok THEN <<r.frame>> ELSE <<>>)
    /\ pc' = [pc EXCEPT ![1] = IF r.ok THEN "seek" ELSE "failed"]
    /\ UNCHANGED <<cfg, reads, lock, held>>

\* if (m_stream->getNextFrame() == nullptr)
BenchGet ==
    /\ pc[1] = "getNextFrame"
    /\ benchRead(getNextFrame(resetCounters(stream)))

\* for (auto _ : state): the next pass starts over from the first position
BenchAgain ==
    /\ pc[1] = "seek"
    /\ held[1].arg # NoPosition
    /\ held' = [held EXCEPT ![1] = [frame |-> EmptyFrame, arg |-> NoPosition, seq |-> <<>>]]
    /\ last' = NoCall
    /\ UNCHANGED <<cfg, stream, reads, pc, lock>>

NextBench == BenchSeek \/ BenchGet \/ BenchAgain

SpecBench == InitBench /\ [][NextBench]_vars

----------------------------------------------------------------------------
(* The conversions of Stream on their own: timeToTimeStamp,                *)
(* timeStampToTime, frameToTimeStamp and timeStampToFrame applied to       *)
(* arguments drawn from bounded sets, for streams of several time bases,   *)
(* frame rates and start timestamps.                                       *)

\* the largest frame index converted
MaxConvertedFrame == 7

\* denominators of the time bases (numerator 1) and the frame rates: a
\* demuxer reports no frame rate above 1 / time_base
ConvertedTimeBases == {30, 1000, 90000}
ConvertedRates == {25, 30}

ConvertConfigs ==
    {[c EXCEPT !.tbDen = tb, !.fps = r, !.m_startTimeStamp = s, !.firstPts = s] :
        c \in {k \in Configs({1}, {MaxFrames}) : k.delay = 0 /\ k.frameSeek /\ k.tbDen = 30},
        tb \in ConvertedTimeBases, r \in ConvertedRates, s \in {0, MaxFirstPts}}

InitConvert ==
    /\ cfg \in ConvertConfigs
    /\ stream = Stream0
    /\ InitCalls

\* microsecond times: on a frame, one past it, and half a frame later
ConvertedTimes ==
    {frameToTime(k) + d : k \in 0..MaxConvertedFrame, d \in {0, 1, frameToTime(1) \div 2}}

\* container timestamps from the start of the stream on
ConvertedTimeStamps ==
    {cfg.m_startTimeStamp + d : d \in 0..MaxConvertedFrame} \cup {frameToTimeStamp(MaxConvertedFrame) + 1}

\* a conversion and the conversion back: seq holds both results
Converted(op, arg, there, again) ==
    /\ Sequential
    /\ last' = [NoCall EXCEPT !.op = op, !.arg = arg, !.seq = <<there, again>>]
    /\ UNCHANGED <<cfg, stream, reads, pc, lock, held>>

FrameToTimeStampAndBack ==
    \E frame \in 0..MaxConvertedFrame :
        Converted("frameToTimeStamp", frame, frameToTimeStamp(frame),
                  timeStampToFrame(frameToTimeStamp(frame)))

TimeToTimeStampAndBack ==
    \E time \in ConvertedTimes :
        Converted("timeToTimeStamp", time, timeToTimeStamp(time),
                  timeStampToTime(timeToTimeStamp(time)))

TimeStampToTimeAndBack ==
    \E timeStamp \in ConvertedTimeStamps :
        Converted("timeStampToTime", timeStamp, timeStampToTime(timeStamp),
                  timeToTimeStamp(timeStampToTime(timeStamp)))

NextConvert ==
    FrameToTimeStampAndBack \/ TimeToTimeStampAndBack \/ TimeStampToTimeAndBack \/ Return

SpecConvert == InitConvert /\ [][NextConvert]_vars

----------------------------------------------------------------------------
(* Several threads on one Stream.  peekNextFrame, getNextFrameSequence,    *)
(* seekInternal and seekFrameInternal take m_mutex on entry and hold it to *)
(* their return; getNextFrame and popFrame take no lock of their own.      *)

InitThreads ==
    /\ cfg \in {c \in Configs({2}, {MaxFrames}) : c.tbDen = 30 /\ c.frameSeek /\ c.delay = 0}
    /\ stream = Stream0
    /\ InitCalls

\* what a thread keeps while it is inside a call
Local(frame, arg, seq) == [frame |-> frame, arg |-> arg, seq |-> seq]

\* the buffer is still one the code may index: once m_bufferPingHead has
\* passed the end of m_bufferPing every further access is out of bounds
InBounds == stream.m_bufferPingHead <= Len(stream.m_bufferPing)

\* lock_guard<recursive_mutex> lock(m_mutex) on entry of a locking call
Enter(t, call, arg, seq) ==
    /\ InBounds
    /\ pc[t] = "idle"
    /\ lock = 0
    /\ lock' = t
    /\ pc' = [pc EXCEPT ![t] = call]
    /\ held' = [held EXCEPT ![t] = Local(EmptyFrame, arg, seq)]
    /\ UNCHANGED <<cfg, stream, last, reads>>

\* the body of a locking call, and the release of the lock at its return
Leave(t, call, st) ==
    /\ InBounds
    /\ pc[t] = call
    /\ lock = t
    /\ stream' = st
    /\ lock' = 0
    /\ pc' = [pc EXCEPT ![t] = "idle"]
    /\ held' = [held EXCEPT ![t] = Local(EmptyFrame, 0, <<>>)]
    /\ UNCHANGED <<cfg, last, reads>>

EnterPeek(t) == Enter(t, "peek", 0, <<>>)
LeavePeek(t) == Leave(t, "peek", peekNextFrame(stream).st)

EnterSequence(t) == \E frameSequence \in SequenceArgs : Enter(t, "sequence", 0, frameSequence)
LeaveSequence(t) == Leave(t, "sequence", getNextFrameSequence(stream, held[t].seq).st)

EnterSeek(t) == \E timeStamp \in SeekTimes : Enter(t, "seek", timeStamp, <<>>)
LeaveSeek(t) == Leave(t, "seek", seek(resetCounters(stream), held[t].arg).st)

EnterSeekFrame(t) == \E frame \in SeekFrames : Enter(t, "seekFrame", frame, <<>>)
LeaveSeekFrame(t) == Leave(t, "seekFrame", seekFrame(resetCounters(stream), held[t].arg).st)

\* getNextFrame: auto ret = peekNextFrame(), which locks for itself ...
GetEnterPeek(t) == Enter(t, "get_peek", 0, <<>>)

\* ... runs, and releases the lock when it returns ret to getNextFrame
GetLeavePeek(t) ==
    LET ret == peekNextFrame(stream)
    IN  /\ InBounds
        /\ pc[t] = "get_peek"
        /\ lock = t
        /\ stream' = ret.st
        /\ lock' = 0
        /\ pc' = [pc EXCEPT ![t] = IF ret.ok THEN "get_pop" ELSE "idle"]
        /\ held' = [held EXCEPT ![t] = Local(ret.frame, 0, <<>>)]
        /\ UNCHANGED <<cfg, last, reads>>

\* popFrame called by getNextFrame: the test of m_bufferPingHead ...
GetPopCheck(t) ==
    /\ InBounds
    /\ pc[t] = "get_pop"
    /\ pc' = [pc EXCEPT ![t] = IF stream.m_bufferPingHead >= Len(stream.m_bufferPing)
                               THEN "idle" ELSE "get_write"]
    /\ UNCHANGED <<cfg, stream, last, reads, lock, held>>

\* ... and m_bufferPing[m_bufferPingHead++] = make_shared<Frame>(); a head
\* another thread has moved to the end meanwhile is incremented past it
GetPopWrite(t) ==
    /\ InBounds
    /\ pc[t] = "get_write"
    /\ stream' = IF stream.m_bufferPingHead < Len(stream.m_bufferPing)
                 THEN [stream EXCEPT !.m_bufferPing[stream.m_bufferPingHead + 1] = EmptyFrame,
                                     !.m_bufferPingHead = @ + 1]
                 ELSE [stream EXCEPT !.m_bufferPingHead = @ + 1]
    /\ pc' = [pc EXCEPT ![t] = "idle"]
    /\ UNCHANGED <<cfg, last, reads, lock, held>>

NextThreads ==
    \E t \in Threads :
        \/ EnterPeek(t) \/ LeavePeek(t)
        \/ EnterSequence(t) \/ LeaveSequence(t)
        \/ EnterSeek(t) \/ LeaveSeek(t)
        \/ EnterSeekFrame(t) \/ LeaveSeekFrame(t)
        \/ GetEnterPeek(t) \/ GetLeavePeek(t)
        \/ GetPopCheck(t) \/ GetPopWrite(t)

SpecThreads == InitThreads /\ [][NextThreads]_vars

----------------------------------------------------------------------------
(* Properties *)

\* the frame numbers of a sequence of frames
FrameNums(frames) == [i \in 1..Len(frames) |-> frames[i].frameNum]

\* the timestamp the stream gives frame k of the file
TimeOf(k) == timeStampToTime(FramePts(k))

\* C1. Peek idempotence: after a peek_next that returned a frame, a second
\* peek_next with nothing in between returns the same frame (timestamp and
\* frame number) and leaves ping, ping_head, pong, the read position and the
\* decoder as they are.
C1_PeekIdempotent ==
    (last.op = "peek" /\ last.ok) =>
        LET again == peekNextFrame(stream)
        IN  /\ again.ok
            /\ again.frame = last.frames[1]
            /\ again.st = stream

\* a peek that had to decode and swap, on a stream that was read before
C1_Witness ==
    /\ last.op = "peek" /\ last.ok
    /\ last.pre.readPos > 0
    /\ last.pre.m_bufferPingHead = Len(last.pre.m_bufferPing)
    /\ stream.m_bufferPingHead = 0

\* C2. On a freshly opened stream of N frames, the k-th get_next (k = 0..N-1)
\* returns frame number k and the call after those returns end-of-stream,
\* whatever the buffer length and the decoder delay.
C2_AllFramesRead ==
    (last.op = "get" /\ last.fresh >= 0) =>
        IF last.fresh < cfg.nFrames
        THEN last.ok /\ last.frames[1].frameNum = last.fresh
        ELSE ~last.ok

\* C4. Peek-pop equality: get_next returns what peek_next would have returned
\* from the same state; on a frame it leaves the state peek_next leaves except
\* ping_head one further and the returned slot released; otherwise it leaves
\* exactly the state peek_next leaves (nothing is popped).
C4_PeekPopEquality ==
    (last.op = "get") =>
        LET p == peekNextFrame(last.pre)
        IN  /\ last.ok = p.ok
            /\ last.ok =>
                /\ last.frames[1] = p.frame
                /\ stream.m_bufferPingHead = p.st.m_bufferPingHead + 1
                /\ Len(stream.m_bufferPing) = Len(p.st.m_bufferPing)
                /\ \A i \in 1..Len(stream.m_bufferPing) :
                       i # stream.m_bufferPingHead =>
                           stream.m_bufferPing[i] = p.st.m_bufferPing[i]
                /\ stream.readPos = p.st.readPos
                /\ stream.decoder = p.st.decoder
            /\ ~last.ok => stream = p.st

\* a get_next that refilled ping and popped its first frame
C4_Witness ==
    /\ last.op = "get" /\ last.ok
    /\ last.pre.readPos > 0
    /\ last.pre.m_bufferPingHead = Len(last.pre.m_bufferPing)
    /\ stream.m_bufferPingHead = 1

\* C5. Monotone reads: a successful get_next returns the frame numbered one
\* more than the previous successful get_next since the last seek, with a
\* timestamp that is not smaller, also when a get_next in between failed.
C5_MonotoneReads ==
    (last.op = "get" /\ last.ok /\ last.run # <<>>) =>
        /\ last.frames[1].frameNum = last.run[1].frameNum + 1
        /\ last.frames[1].timeStamp >= last.run[1].timeStamp

\* C6. Seek locates: after seek_time(t) returned ok, from any reachable cursor
\* state, the next peek_next returns a frame with timestamp in
\* [t - frame_time, t + frame_time).
C6_SeekLocates ==
    (last.op = "seek" /\ last.ok) =>
        LET p == peekNextFrame(stream)
        IN  /\ p.ok
            /\ p.frame.timeStamp >= last.arg - getFrameTime
            /\ p.frame.timeStamp < last.arg + getFrameTime

\* t lies strictly between the timestamps of frames k and k+1 of the file
Between(t, k) == TimeOf(k) < t /\ t < TimeOf(k + 1)

C8_SeekFrameLocates ==
    (last.op = "seekFrame" /\ last.ok /\ stream.m_frameSeekSupported) =>
        LET p == peekNextFrame(stream)
        IN  p.ok /\ p.frame.frameNum = last.arg

\* n get_next calls whose frames the caller drops
RECURSIVE discardFrames(_, _)
discardFrames(st, n) ==
    IF n <= 0
    THEN [ok |-> TRUE, st |-> st]
    ELSE LET g == getNextFrame(st)
         IN  IF ~g.ok THEN [ok |-> FALSE, st |-> g.st] ELSE discardFrames(g.st, n - 1)

\* pop a, take one, pop b-a-1, take one, pop c-b-1, take one
ManualSequence(st, a, b, c) ==
    LET d1 == discardFrames(st, a)
        g1 == getNextFrame(d1.st)
        d2 == discardFrames(g1.st, b - a - 1)
        g2 == getNextFrame(d2.st)
        d3 == discardFrames(g2.st, c - b - 1)
        g3 == getNextFrame(d3.st)
    IN  IF ~d1.ok THEN [ok |-> FALSE, frames |-> <<>>, st |-> d1.st]
        ELSE IF ~g1.ok THEN [ok |-> FALSE, frames |-> <<>>, st |-> g1.st]
        ELSE IF ~d2.ok THEN [ok |-> FALSE, frames |-> <<>>, st |-> d2.st]
        ELSE IF ~g2.ok THEN [ok |-> FALSE, frames |-> <<>>, st |-> g2.st]
        ELSE IF ~d3.ok THEN [ok |-> FALSE, frames |-> <<>>, st |-> d3.st]
        ELSE IF ~g3.ok THEN [ok |-> FALSE, frames |-> <<>>, st |-> g3.st]
        ELSE [ok |-> TRUE, frames |-> <<g1.frame, g2.frame, g3.frame>>, st |-> g3.st]

\* the frames n successive get_next calls return, while they return frames
RECURSIVE readAhead(_, _)
readAhead(st, n) ==
    IF n <= 0
    THEN <<>>
    ELSE LET g == getNextFrame(st)
         IN  IF ~g.ok THEN <<>> ELSE <<g.frame>> \o readAhead(g.st, n - 1)

Ascending3(seq) == Len(seq) = 3 /\ seq[1] < seq[2] /\ seq[2] < seq[3]

\* C9. Sequence equals manual: for a strictly ascending [a,b,c] get_sequence
\* returns the frames, and leaves the stream in the state, of popping a,
\* get_next, popping b-a-1, get_next, popping c-b-1, get_next; the frames are
\* those at offsets a, b and c in the run of frames get_next would have
\* delivered from the cursor position at the start of the call.
C9_SequenceEqualsManual ==
    (last.op = "sequence" /\ Ascending3(last.seq)) =>
        LET m == ManualSequence(last.pre, last.seq[1], last.seq[2], last.seq[3])
            ahead == readAhead(last.pre, last.seq[3] + 1)
        IN  /\ last.ok = m.ok
            /\ last.frames = m.frames
            /\ stream = m.st
            /\ last.ok => last.frames = [i \in 1..3 |-> ahead[last.seq[i] + 1]]

\* a sequence with gaps, asked past the first frame, that crossed a block
C9_Witness ==
    /\ last.op = "sequence" /\ last.ok /\ Ascending3(last.seq)
    /\ last.seq[1] > 0 /\ last.seq[2] > last.seq[1] + 1
    /\ last.pre.m_bufferPingHead > 0
    /\ stream.readPos > last.pre.readPos

\* the S3 call: get_sequence([0, 5, 11]) on a freshly opened stream with
\* buffer_length = 4
ScenarioS3 ==
    /\ last.op = "sequence" /\ last.seq = <<0, 5, 11>>
    /\ last.pre = Stream0
    /\ cfg.m_bufferLength = 4

\* C10 as claimed: the three frames are numbered 0, 6, 18.
C10_CountsFromPrevious ==
    (ScenarioS3 /\ last.ok) => FrameNums(last.frames) = <<0, 6, 18>>

\* C10 as the code has it: the three frames are numbered 0, 5, 11 (each index
\* counts from the cursor position at the start of the call), and the call
\* returns them whenever the decoder delivers 12 frames of the file.
C10_CountsFromStart ==
    ScenarioS3 =>
        /\ last.ok => FrameNums(last.frames) = <<0, 5, 11>>
        /\ (cfg.nFrames - cfg.delay >= 12) => last.ok

C10_Witness == ScenarioS3 /\ last.ok /\ Len(last.frames) = 3


\* the list is one get_sequence accepts by its contract: no negative first
\* index, every index greater than the one before it
StrictlyAscending(seq) ==
    /\ (seq # <<>>) => seq[1] >= 0
    /\ \A i \in 1..(Len(seq) - 1) : seq[i] < seq[i + 1]

\* the number of frames a call with this list consumes
FramesNeeded(seq) == IF seq = <<>> THEN 0 ELSE seq[Len(seq)] + 1

\* C11. get_sequence returns an error for every index list that is not
\* strictly ascending (an index at most its predecessor, or a negative first
\* index); for a strictly ascending list it returns exactly len(indices)
\* frames when the stream still delivers the frames the list reaches.
C11_AscendingEnforced ==
    (last.op = "sequence") =>
        /\ ~StrictlyAscending(last.seq) => ~last.ok
        /\ (/\ StrictlyAscending(last.seq)
            /\ Len(readAhead(last.pre, FramesNeeded(last.seq))) = FramesNeeded(last.seq))
               => (last.ok /\ Len(last.frames) = Len(last.seq))

\* a list rejected at its second index, after its first frame was taken
C11_Witness ==
    /\ last.op = "sequence" /\ ~last.ok
    /\ Len(last.seq) = 3 /\ last.seq[1] >= 0 /\ last.seq[2] <= last.seq[1]
    /\ stream.m_bufferPingHead > 0
    /\ stream # last.pre

\* C12. The frame_seek_supported latch is one-way: it is true at construction,
\* and once it is false no later step of any seek or read makes it true.
C12_LatchOneWay ==
    /\ stream.m_frameSeekSupported
    /\ [][~stream.m_frameSeekSupported => ~stream'.m_frameSeekSupported]_vars

\* a seek_frame that succeeded on a stream whose latch had fallen before
C12_Witness ==
    /\ last.op = "seekFrame" /\ last.ok
    /\ ~last.pre.m_frameSeekSupported
    /\ ~stream.m_frameSeekSupported
    /\ stream.seeks = 1

\* the frame-flagged demuxer seek seek_frame(n) issues from state st
FrameSeekFrom(st, n) ==
    avformat_seek_file(avcodec_flush_buffers(st), n + timeStampToFrame(cfg.m_startTimeStamp), TRUE)

\* seek_frame(n) finds its target without the demuxer: in ping or just ahead
NearFrame(st, n) == frameInBuffer(st, n) \/ frameInForwardRange(st, n)

\* C13. Once the latch has fallen, a seek_frame issues no frame-flagged
\* demuxer seek: it resolves the target in the buffer or is exactly
\* seek_time(frame_to_time(n)); and the seek_frame whose frame-flagged seek
\* fails latches and succeeds exactly when that time seek succeeds.
C13_LatchedFallback ==
    (last.op = "seekFrame") =>
        LET n == last.arg
            direct == IF NearFrame(last.pre, n)
                      THEN dumpUntilFrame(last.pre, n)
                      ELSE seek(last.pre, frameToTime(n))
            sk == FrameSeekFrom(last.pre, n)
            fallback == seek([sk.st EXCEPT !.m_frameSeekSupported = FALSE], frameToTime(n))
        IN  /\ ~last.pre.m_frameSeekSupported =>
                /\ stream.frameSeeks = 0
                /\ last.ok = direct.ok
                /\ stream = direct.st
            /\ (last.pre.m_frameSeekSupported /\ ~NearFrame(last.pre, n) /\ sk.err < 0) =>
                /\ ~stream.m_frameSeekSupported
                /\ stream.frameSeeks = 1
                /\ last.ok = fallback.ok
                /\ stream = fallback.st

\* a latched seek_frame, on a demuxer without frame seeks, that went to the
\* demuxer by time and succeeded
C13_Witness ==
    /\ last.op = "seekFrame" /\ last.ok
    /\ ~cfg.frameSeek
    /\ ~last.pre.m_frameSeekSupported
    /\ stream.frameSeeks = 0
    /\ stream.seeks = 1

\* the last call was a seek to the frame peek_next would have returned
SeekToCurrent ==
    LET cur == peekNextFrame(last.pre)
    IN  /\ cur.ok
        /\ \/ last.op = "seek" /\ last.arg = cur.frame.timeStamp
           \/ last.op = "seekFrame" /\ last.arg = cur.frame.frameNum

\* C14. In every reachable state a seek to the current peek position (the
\* timestamp, or the frame number, of the frame peek_next would return)
\* returns ok, flushes nothing, issues no demuxer seek, and the next
\* peek_next returns that same frame.
C14_SeekToCurrentNoWork ==
    SeekToCurrent =>
        /\ last.ok
        /\ stream.flushes = 0 /\ stream.seeks = 0 /\ stream.frameSeeks = 0
        /\ peekNextFrame(stream).ok
        /\ peekNextFrame(stream).frame = peekNextFrame(last.pre).frame

\* C15. Whenever seek_time or seek_frame returns failure, ping is empty
\* (len(ping) = 0 and ping_head = 0), on every failure path.
C15_FailedSeekEmptiesPing ==
    (last.op \in {"seek", "seekFrame"} /\ ~last.ok) =>
        /\ Len(stream.m_bufferPing) = 0
        /\ stream.m_bufferPingHead = 0

\* the last frame of the file
LastFrame == cfg.nFrames - 1

\* C16. A seek_time(t) or seek_frame(n) whose target lies after the last
\* frame of the stream returns failure from every reachable state; it never
\* returns ok with the cursor on an earlier frame.
C16_SeekPastLastFrameFails ==
    (\/ last.op = "seek" /\ last.arg > TimeOf(LastFrame)
     \/ last.op = "seekFrame" /\ last.arg > LastFrame)
        => ~last.ok

\* a seek past the end, from a cursor inside ping, that went to the end of
\* the file and failed
C16_Witness ==
    /\ last.op \in {"seek", "seekFrame"} /\ ~last.ok
    /\ \/ last.op = "seek" /\ last.arg > TimeOf(LastFrame)
       \/ last.op = "seekFrame" /\ last.arg > LastFrame
    /\ last.pre.m_bufferPingHead < Len(last.pre.m_bufferPing)
    /\ stream.readPos = NumPackets

\* the first getNextFrame on a constructed Stream has returned
FirstGetNext == last.op = "get" /\ last.fresh = 0 /\ pc[1] = "idle"

\* C17: the first get_next on a newly constructed Stream returns the first
\* presented frame, with timestamp 0 and frame number 0, whichever paths the
\* start-timestamp probe and the total-frames and duration probes took
C17_FirstFrameIsZero ==
    FirstGetNext => (last.ok /\ last.frames = <<Frame(0, 0)>>)

\* the benchmark's seek has returned, and it was a seek forward from the
\* position of a seek that was followed by a getNextFrame
ForwardSeekDone ==
    /\ last.op = "seek"
    /\ pc[1] \in {"getNextFrame", "failed"}
    /\ held[1].seq # <<>>
    /\ held[1].seq[1] # NoPosition

\* C18: after a seek_time to a frame-aligned time and a get_next, a seek_time
\* to any later frame-aligned time inside the stream returns ok and the
\* get_next after it returns a frame
C18_ForwardSeekSucceeds ==
    ForwardSeekDone => (last.ok /\ getNextFrame(stream).ok)

PrimedForTime(st, timeStamp) ==
    IF timeInBuffer(st, timeStamp)
    THEN [ok |-> FALSE, st |-> st]
    ELSE IF timeInForwardRange(st, timeStamp)
    THEN peekNextFrame(cleanBuffer(st))
    ELSE LET sk == avformat_seek_file(avcodec_flush_buffers(st),
                                      timeToTimeStamp(timeStamp) + cfg.m_startTimeStamp, FALSE)
         IN  IF sk.err < 0
             THEN [ok |-> FALSE, st |-> sk.st]
             ELSE peekNextFrame(cleanBuffer(sk.st))

\* the same for seekFrameInternal, which recurses only after a frame seek
PrimedForFrame(st, frame) ==
    IF NearFrame(st, frame) \/ ~st.m_frameSeekSupported \/ FrameSeekFrom(st, frame).err < 0
    THEN [ok |-> FALSE, st |-> st]
    ELSE peekNextFrame(cleanBuffer(FrameSeekFrom(st, frame).st))

LastOfPingKnown ==
    /\ Len(last.pre.m_bufferPing) > 0
    /\ (last.pre.m_bufferPingHead < Len(last.pre.m_bufferPing)) \/ (last.run # <<>>)

LastOfPing ==
    IF last.pre.m_bufferPingHead < Len(last.pre.m_bufferPing)
    THEN back(last.pre)
    ELSE last.run[1]

\* the call went into the forward-decode branch
TookForwardPath ==
    \/ /\ last.op = "seek"
       /\ ~timeInBuffer(last.pre, last.arg)
       /\ timeInForwardRange(last.pre, last.arg)
    \/ /\ last.op = "seekFrame"
       /\ ~frameInBuffer(last.pre, last.arg)
       /\ frameInForwardRange(last.pre, last.arg)

\* C21: a seek decodes forward without flush and demuxer seek only when its
\* target is after the key of the last frame decoded into ping and within the
\* tolerance of it (25 frames for seek_time, 2 * buffer_length frames for
\* seek_frame), also when every frame of ping has been popped
C21_ForwardOnlyAfterLastFrame ==
    (LastOfPingKnown /\ TookForwardPath) =>
        IF last.op = "seek"
        THEN /\ last.arg > LastOfPing.timeStamp
             /\ last.arg <= LastOfPing.timeStamp + frameToTime(forwardRange)
        ELSE /\ last.arg > LastOfPing.frameNum
             /\ last.arg <= LastOfPing.frameNum + cfg.m_bufferLength * 2

\* the target of the seek lay between the frame at the head of ping and the
\* last frame of ping when the call was made
TargetInPing ==
    \/ last.op = "seek" /\ timeInBuffer(last.pre, last.arg)
    \/ last.op = "seekFrame" /\ frameInBuffer(last.pre, last.arg)

\* st is what remains of before when frames are popped from the head of ping
\* and nothing else is touched
OnlyPopped(before, st) ==
    /\ st.m_bufferPingHead >= before.m_bufferPingHead
    /\ st.m_bufferPingHead < Len(before.m_bufferPing)
    /\ st = [before EXCEPT
                !.m_bufferPingHead = st.m_bufferPingHead,
                !.m_bufferPing = [i \in 1..Len(before.m_bufferPing) |->
                    IF i > before.m_bufferPingHead /\ i <= st.m_bufferPingHead
                    THEN EmptyFrame
                    ELSE before.m_bufferPing[i]]]

\* the frames the call popped, as they were in ping before it
PoppedBy(before, st) ==
    {before.m_bufferPing[i] : i \in (before.m_bufferPingHead + 1)..st.m_bufferPingHead}

HeldFrame(before, frameNum) ==
    \E i \in (before.m_bufferPingHead + 1)..Len(before.m_bufferPing) :
        before.m_bufferPing[i].frameNum = frameNum

C23_BoundedDemuxerWork ==
    /\ (last.op = "seek") =>
           /\ stream.flushes <= 1
           /\ stream.seeks <= 1
           /\ stream.frameSeeks = 0
           /\ stream.readPos <= NumPackets
    /\ (last.op = "seekFrame") =>
           /\ stream.frameSeeks <= 1
           /\ stream.seeks <= 1
           /\ (stream.frameSeeks = 1 /\ stream.seeks = 1) =>
                  (last.pre.m_frameSeekSupported /\ ~stream.m_frameSeekSupported)
           /\ stream.readPos <= NumPackets

\* a seek_frame has returned ok after a frame-flagged demuxer seek and a
\* timestamp demuxer seek
C23_Witness ==
    /\ last.op = "seekFrame"
    /\ last.ok
    /\ stream.frameSeeks = 1
    /\ stream.seeks = 1
    /\ stream.flushes = 2

\* C24: ping_head <= len(ping) in every reachable state, whatever calls are
\* made and by however many threads, so that peek_next never reads ping at an
\* index past its end
C24_HeadInsidePing ==
    /\ stream.m_bufferPingHead >= 0
    /\ stream.m_bufferPingHead <= Len(stream.m_bufferPing)

\* the last call was a peekNextFrame whose decodeNextBlock failed (line 117-119),
\* not one that reached the end of the file
PeekFailedInDecode ==
    /\ last.op = "peek"
    /\ ~last.ok
    /\ bufferExhausted(last.pre)
    /\ last.pre.fault # NoFault
    /\ stream.fault = NoFault

\* the frames of a block that the next successful peekNextFrame makes readable
RetriedPing == peekNextFrame(stream).st.m_bufferPing

\* C25: when decodeNextBlock fails inside peekNextFrame, the call returns the
\* error with ping and the ping head unchanged and the lock free, and no frame
\* decoded before the failure is dropped: every frame the failed call left in
\* pong is in the block that the retried read serves
C25_FailedPeekKeepsFrames ==
    PeekFailedInDecode =>
        /\ stream.m_bufferPing = last.pre.m_bufferPing
        /\ stream.m_bufferPingHead = last.pre.m_bufferPingHead
        /\ lock = 0
        /\ \A i \in 1..Len(stream.m_bufferPong) :
               \E j \in 1..Len(RetriedPing) : RetriedPing[j] = stream.m_bufferPong[i]

\* the part of C25 that the code keeps: ping, its head and the lock
C25_FailedPeekLeavesPing ==
    PeekFailedInDecode =>
        /\ stream.m_bufferPing = last.pre.m_bufferPing
        /\ stream.m_bufferPingHead = last.pre.m_bufferPingHead
        /\ lock = 0

\* getStreamFrames has run: m_totalFrames holds its result
FramesProbed == pc[1] \in {"getStreamDuration", "idle"}

\* the start-time correction of lines 557 and 563
startCorrection == timeStampToFrame(cfg.m_startTimeStamp * 2)

\* the result of the branches after the container duration, in their order:
\* nb_frames if positive, then the substream duration if positive, then the scan
fallThroughFrames ==
    IF cfg.nb_frames > 0
    THEN cfg.nb_frames - startCorrection
    ELSE IF cfg.streamDuration > 0
    THEN timeStampToFrame(cfg.streamDuration)
    ELSE framesOfScan(scanFile(Stream0)).value

\* C26: the count derived from the container duration (minus the start-time
\* correction) is the result when it is within 1 frame of the declared frame
\* count; when it differs by more than 1 frame the result is that of the
\* later branches: nb_frames, then the substream duration, then the scan
C26_DurationCountWhenClose ==
    (FramesProbed /\ cfg.duration > 0) =>
        cfg.m_totalFrames =
            IF Abs(durationFrames - cfg.nb_frames) <= 1
            THEN durationFrames - startCorrection
            ELSE fallThroughFrames

\* C26 as the code has it: the count derived from the container duration
\* (minus the start-time correction) is the result when it differs from the
\* declared frame count by MORE than 1 frame; when the two are within 1 frame,
\* or the container declares no duration, the result is that of the later
\* branches: nb_frames, then the substream duration, then the scan
C26_DurationCountWhenFar ==
    FramesProbed =>
        cfg.m_totalFrames =
            IF cfg.duration > 0 /\ Abs(durationFrames - cfg.nb_frames) > 1
            THEN durationFrames - startCorrection
            ELSE fallThroughFrames

\* both cases of C26 with different counts at stake: a file whose declared count
\* is one more than the duration count and was taken, and so differs from it
C26_Witness ==
    /\ FramesProbed
    /\ cfg.duration > 0
    /\ cfg.nb_frames = durationFrames + 1
    /\ cfg.m_totalFrames = cfg.nb_frames - startCorrection
    /\ cfg.m_totalFrames # durationFrames - startCorrection

\* getStreamDuration has run: m_totalDuration holds its result
DurationProbed == pc[1] = "idle"

\* getStreamFrames (getStreamDuration) came down to its fallback scan
FramesScanned ==
    /\ ~(cfg.duration > 0 /\ Abs(durationFrames - cfg.nb_frames) > 1)
    /\ cfg.nb_frames = 0
    /\ cfg.streamDuration = 0

DurationScanned == cfg.duration = 0 /\ cfg.streamDuration = 0

\* the largest of the start timestamp and the values (pts when valid, else
\* dts) of the packets of the video substream
largestStamp ==
    Max({cfg.m_startTimeStamp} \cup
        {ptsElseDts(PacketAt(p)) :
            p \in {q \in 0..(NumPackets - 1) : PacketAt(q).stream_index = m_index}})

\* C27: in the fallback scan of the total-frames and total-duration probes
\* every packet of the video substream contributes its pts when the pts is
\* valid and otherwise its dts; the results are 1 + timeStampToFrame(max) and
\* timeStampToTime(max) + frameToTime(1), max being the largest contributed
\* value, at least the start timestamp
C27_ScanTakesPtsElseDts ==
    /\ (FramesProbed /\ FramesScanned) =>
           cfg.m_totalFrames = 1 + timeStampToFrame(largestStamp)
    /\ (DurationProbed /\ DurationScanned) =>
           cfg.m_totalDuration = timeStampToTime(largestStamp) + frameToTime(1)

\* C27 on the files whose packets carry both timestamps
C27_ScanOfFullyStampedFile ==
    (cfg.hasPts /\ cfg.hasDts) => C27_ScanTakesPtsElseDts

\* getStreamStartTime has just run on a file without a declared start_time,
\* and its first seek (line 511) succeeded
StartProbedFromPackets ==
    /\ pc[1] = "getStreamFrames"
    /\ cfg.start_time = AV_NOPTS_VALUE
    /\ keyFramesFor(startDtsOf(cfg.first_dts), TRUE) # {}

\* the keyframe the first seek of the probe lands on: the start
startKeyFrame == Max(keyFramesFor(startDtsOf(cfg.first_dts), TRUE))

\* the values (pts, else dts) of the video packets the probe reads: the first
\* getCodecDelay of them, or all there are
startStamps ==
    {ptsElseDts(PacketAt(VideoPos(k))) :
        k \in startKeyFrame..Min({startKeyFrame + getCodecDelay, cfg.nFrames}) - 1}

\* the file holds fewer video packets than the probe wants to read
FewerThanCodecDelay == cfg.nFrames - startKeyFrame < getCodecDelay

\* C28: without a declared start_time the probe's result is the smallest of
\* (pts, else dts) over the video packets read, at most getCodecDelay of them,
\* and 0 only if none of them has a valid value; and on every path that moved
\* the read position, a file with fewer than getCodecDelay packets included,
\* the read position is back at the start when the probe returns
C28_StartIsEarliestStamp ==
    StartProbedFromPackets =>
        /\ cfg.m_startTimeStamp =
               IF startStamps \ {AV_NOPTS_VALUE} = {}
               THEN 0
               ELSE Min(startStamps \ {AV_NOPTS_VALUE})
        /\ stream.readPos = VideoPos(startKeyFrame)

\* C28 on the files that hold at least getCodecDelay video packets
C28_StartOfLongEnoughFile ==
    (StartProbedFromPackets /\ ~FewerThanCodecDelay) => C28_StartIsEarliestStamp

\* a thread is inside getNextFrame, after its peek and before its pop is done
BetweenPeekAndPop(t) == pc[t] \in {"get_pop", "get_write"}

\* C3. Every public operation holds the lock for its whole duration: while a
\* thread is between the peek and the pop of its get_next, no step of another
\* thread changes ping or ping_head.
C3_NothingInsideGetNext ==
    [][\A t \in Threads :
          (BetweenPeekAndPop(t) /\ pc'[t] = pc[t]) =>
              /\ stream'.m_bufferPing = stream.m_bufferPing
              /\ stream'.m_bufferPingHead = stream.m_bufferPingHead]_vars

====
